---- MODULE Spec2Model ----
(***************************************************************************)
(* Document Intelligence System: the versioned answer cache (src/main.py)  *)
(* and the upload -> ingest -> invalidate workflow (src/main.py,           *)
(* src/ingest.py).                                                         *)
(*                                                                         *)
(* Three specifications share the definitions below.                       *)
(*   Spec        the two HTTP handlers, /chat and /upload, run by several  *)
(*               workers against one Redis store, one vector store and one *)
(*               working directory.  The code takes no lock, so the        *)
(*               handlers interleave at every call that touches a shared   *)
(*               resource, and any such call may fail.                     *)
(*   UploadSpec  /upload requests alone, two at a time, over every file    *)
(*               name and content.                                         *)
(*   OpSpec      one caller running the functions of src/main.py one       *)
(*               after the other, each call from start to end.             *)
(*                                                                         *)
(* Redis values are byte strings; they are modelled as strings.  A value   *)
(* that may be None is a sequence of length 0 (None) or 1 (the value).     *)
(* sha256 is modelled as an injective function of its input.               *)
(***************************************************************************)
EXTENDS Integers, Sequences, FiniteSets, TLC

\* ------------------------------------------------------------------ bounds

MaxChats == 3       \* /chat requests started in one behaviour
MaxUploads == 2     \* /upload requests started in one behaviour
MaxBumps == 2       \* bump_corpus_version calls made by the caller of OpSpec
MaxKeyVersion == 12 \* largest corpus version a key is derived for in KeySpec

ChatIds == {"c1", "c2"}
UploadIds == {"u1", "u2"}

Questions == {"q", "1:q"}
Sessions == {"s1", "s2"}
Answers == {"", "Paris"}
Filenames == {"a.pdf", "b.pdf"}

\* KeySpec: questions that differ in case, in whitespace, or that hold ':' and digits
KeyQuestions == {"q", "Q", "q ", "1:q", ":q", "1", ":", ""}

\* file contents, as sequences of blocks; a PDF starts with the header block
PdfHeader == "%PDF"
GoodPdf == <<PdfHeader, "x">>
LongPdf == <<PdfHeader, "y", "z">>
BadPdf == <<"junk">>
Blobs == {GoodPdf, LongPdf, BadPdf}

\* ------------------------------------------------------------------ state

VARIABLES
    store,      \* Redis: key -> [val, ttl]; DOMAIN store is the set of keys present
    corpus,     \* the pdf_collection of the vector store: set of [by, text]
    files,      \* working directory: path -> content (sequence of bytes)
    chat,       \* /chat requests:   id -> locals of the handler
    upl,        \* /upload requests: id -> locals of the handler
    nChats,     \* /chat requests started so far
    nUploads,   \* /upload requests started so far
    origin,     \* history: cache key -> the documents the cached answer was retrieved from
    indexed,    \* history: documents whose upload has bumped the version
    calls       \* OpSpec: the last two calls and the number of bumps made so far

vars == <<store, corpus, files, chat, upl, nChats, nUploads, origin, indexed, calls>>

None == <<>>
Some(x) == <<x>>

\* Python truthiness of a bytes/str value or None: None and the empty string are false.
Truthy(r) == r # None /\ r[1] # ""

\* ------------------------------------------------------------------ Redis

VKEY == "corpus_version"
CacheTtl == 3600

\* Largest integer a stored counter can reach: one INCR per upload, one more in OpSpec.
IntBound == MaxUploads + MaxBumps + 2

\* int(s) for the decimal strings Redis stores
StrToInt(s) == CHOOSE n \in 0..IntBound : ToString(n) = s

RGet(st, k) == IF k \in DOMAIN st THEN Some(st[k].val) ELSE None

\* SET k v: stores the value and clears any expiry
RSet(st, k, v) ==
    [x \in DOMAIN st \cup {k} |-> IF x = k THEN [val |-> v, ttl |-> None] ELSE st[x]]

\* SETEX k t v
RSetex(st, k, t, v) ==
    [x \in DOMAIN st \cup {k} |-> IF x = k THEN [val |-> v, ttl |-> Some(t)] ELSE st[x]]

\* INCR k: an absent key counts as 0; an existing expiry is kept
RIncr(st, k) ==
    [x \in DOMAIN st \cup {k} |->
        IF x = k
        THEN IF k \in DOMAIN st
             THEN [val |-> ToString(StrToInt(st[k].val) + 1), ttl |-> st[k].ttl]
             ELSE [val |-> ToString(1), ttl |-> None]
        ELSE st[x]]

\* a key whose time-to-live has run out is gone
RExpire(st, k) == [x \in DOMAIN st \ {k} |-> st[x]]

\* ------------------------------------------------------------------ corpus version

\* get_corpus_version, line 27: v = redis_client.get("corpus_version")
gcv_read(st) == RGet(st, VKEY)

\* get_corpus_version, line 28: if not v
gcv_absent(v) == ~Truthy(v)

\* gcv_init without line 29: returns "1" and stores nothing
gcv_init_unsaved(st) == [store |-> st, ret |-> "1"]

\* get_corpus_version, lines 29-30: redis_client.set("corpus_version", 1); return "1"
gcv_init(st) == [store |-> RSet(st, VKEY, ToString(1)), ret |-> "1"]

\* get_corpus_version, called with nothing running in between
get_corpus_version(st) ==
    LET v == gcv_read(st)
    IN  IF gcv_absent(v) THEN gcv_init(st) ELSE [store |-> st, ret |-> v[1]]

\* bump_corpus_version with the increment made twice
bump_corpus_version_twice(st) == RIncr(RIncr(st, VKEY), VKEY)

\* bump_corpus_version that also deletes the cached answers
bump_corpus_version_purge(st) ==
    RIncr([k \in DOMAIN st \cap {VKEY} |-> st[k]], VKEY)

\* bump_corpus_version: redis_client.incr("corpus_version")
bump_corpus_version(st) == RIncr(st, VKEY)

\* ------------------------------------------------------------------ cache

sha256hex(raw) == "sha256(" \o raw \o ")"

\* cache_key, line 88, with the separator left out
raw_key_unseparated(version, query) == version \o query

\* cache_key, line 88: raw = f"{version}:{query}"
raw_key(version, query) == version \o ":" \o query

\* cache_key, lines 88-89, for the version string get_corpus_version returned
cache_key(version, query) == sha256hex(raw_key(version, query))

\* get_cached_response, lines 93-94
gcr_lookup(st, key) ==
    LET cached == RGet(st, key)
    IN  IF Truthy(cached) THEN cached ELSE None

\* save_to_cache, line 98
stc_store(st, key, response) == RSetex(st, key, CacheTtl, response)

\* get_cached_response, called with nothing running in between
get_cached_response(st, query) ==
    LET g == get_corpus_version(st)
    IN  [store |-> g.store, ret |-> gcr_lookup(g.store, cache_key(g.ret, query))]

\* save_to_cache, called with nothing running in between
save_to_cache(st, query, response) ==
    LET g == get_corpus_version(st)
    IN  stc_store(g.store, cache_key(g.ret, query), response)

\* class QueryRequest: the body of a /chat request
QueryRequest(question, session_id) == [question |-> question, session_id |-> session_id]

\* chat, lines 108-117, called with nothing running in between; answer is the
\* text the pipeline returns when it is invoked
chat_request(st, request, answer) ==
    LET g == get_cached_response(st, request.question)
    IN  IF Truthy(g.ret)
        THEN [store |-> g.store, answer |-> g.ret[1], source |-> "cache"]
        ELSE [store |-> save_to_cache(g.store, request.question, answer),
              answer |-> answer, source |-> "llm"]

\* the stored counter as an integer, an absent key counting as 0 as for INCR
VersionInt(st) == IF VKEY \in DOMAIN st THEN StrToInt(st[VKEY].val) ELSE 0

\* ------------------------------------------------------------------ /chat

IdleChat ==
    [pc |-> "idle", q |-> "", sid |-> "", lver |-> "", sver |-> "", answer |-> "",
     seen |-> {}, runs |-> 0, wrote |-> 0, status |-> "none", source |-> "", err |-> ""]

\* an unhandled exception leaves the handler: the framework answers 500
ChatRaise(c, where) ==
    chat' = [chat EXCEPT ![c] = [IdleChat EXCEPT !.pc = "done", !.q = chat[c].q,
                                                  !.sid = chat[c].sid,
                                                  !.runs = chat[c].runs,
                                                  !.wrote = chat[c].wrote,
                                                  !.status = "error", !.err = where]]

\* chat, lines 110 and 117: the handler returns {"answer": ..., "source": ...}
ChatReply(c, answer, source) ==
    [IdleChat EXCEPT !.pc = "done", !.q = chat[c].q, !.sid = chat[c].sid,
                     !.runs = chat[c].runs, !.wrote = chat[c].wrote,
                     !.status = "ok", !.answer = answer, !.source = source]

\* the documents the retriever can see
Visible == {d.by : d \in corpus}

\* POST /chat arrives: request = QueryRequest(question, session_id)
ChatStart(c, q, sid) ==
    /\ chat[c].pc = "idle"
    /\ nChats < MaxChats
    /\ chat' = [chat EXCEPT ![c] = [IdleChat EXCEPT !.pc = "lookup", !.q = q, !.sid = sid]]
    /\ nChats' = nChats + 1
    /\ UNCHANGED <<store, corpus, files, upl, nUploads, origin, indexed, calls>>

\* cache_key -> get_corpus_version, lines 27-28 and 31, in get_cached_response
\* (pc = "lookup") and again in save_to_cache (pc = "save")
ChatVersion(c) ==
    /\ chat[c].pc \in {"lookup", "save"}
    /\ \E reachable \in BOOLEAN :
          IF ~reachable
          THEN ChatRaise(c, chat[c].pc)
          ELSE LET v == gcv_read(store)
               IN  IF gcv_absent(v)
                   THEN chat' = [chat EXCEPT ![c].pc = chat[c].pc \o "_init"]
                   ELSE IF chat[c].pc = "lookup"
                        THEN chat' = [chat EXCEPT ![c].pc = "lookup_get", ![c].lver = v[1]]
                        ELSE chat' = [chat EXCEPT ![c].pc = "save_setex", ![c].sver = v[1]]
    /\ UNCHANGED <<store, corpus, files, upl, nChats, nUploads, origin, indexed, calls>>

\* get_corpus_version, lines 29-30, reached when line 27 read nothing
ChatVersionInit(c) ==
    /\ chat[c].pc \in {"lookup_init", "save_init"}
    /\ \E reachable \in BOOLEAN :
          IF ~reachable
          THEN /\ ChatRaise(c, chat[c].pc)
               /\ UNCHANGED store
          ELSE LET r == gcv_init(store)
               IN  /\ store' = r.store
                   /\ IF chat[c].pc = "lookup_init"
                      THEN chat' = [chat EXCEPT ![c].pc = "lookup_get", ![c].lver = r.ret]
                      ELSE chat' = [chat EXCEPT ![c].pc = "save_setex", ![c].sver = r.ret]
    /\ UNCHANGED <<corpus, files, upl, nChats, nUploads, origin, indexed, calls>>

\* get_cached_response, lines 93-94, and chat, lines 108-110
ChatLookup(c) ==
    /\ chat[c].pc = "lookup_get"
    /\ \E reachable \in BOOLEAN :
          IF ~reachable
          THEN ChatRaise(c, "lookup_get")
          ELSE LET cached == gcr_lookup(store, cache_key(chat[c].lver, chat[c].q))
               IN  IF Truthy(cached)
                   THEN chat' = [chat EXCEPT ![c] = ChatReply(c, cached[1], "cache")]
                   ELSE chat' = [chat EXCEPT ![c].pc = "invoke"]
    /\ UNCHANGED <<store, corpus, files, upl, nChats, nUploads, origin, indexed, calls>>

\* chat, lines 112-113: retrieval against the vector store, then the completion,
\* which returns some text or fails
ChatInvoke(c) ==
    /\ chat[c].pc = "invoke"
    /\ \/ ChatRaise(c, "invoke")
       \/ \E a \in Answers :
             chat' = [chat EXCEPT ![c].pc = "save", ![c].answer = a, ![c].seen = Visible,
                                  ![c].runs = chat[c].runs + 1]
    /\ UNCHANGED <<store, corpus, files, upl, nChats, nUploads, origin, indexed, calls>>

\* save_to_cache, line 98, and chat, line 117
ChatSave(c) ==
    /\ chat[c].pc = "save_setex"
    /\ \E reachable \in BOOLEAN :
          IF ~reachable
          THEN /\ ChatRaise(c, "save_setex")
               /\ UNCHANGED <<store, origin>>
          ELSE LET key == cache_key(chat[c].sver, chat[c].q)
               IN  /\ store' = stc_store(store, key, chat[c].answer)
                   /\ origin' = [k \in DOMAIN origin \cup {key} |->
                                    IF k = key THEN chat[c].seen ELSE origin[k]]
                   /\ chat' = [chat EXCEPT ![c] = [ChatReply(c, chat[c].answer, "llm")
                                                       EXCEPT !.wrote = chat[c].wrote + 1]]
    /\ UNCHANGED <<corpus, files, upl, nChats, nUploads, indexed, calls>>

\* the response has been sent
ChatReturn(c) ==
    /\ chat[c].pc = "done"
    /\ chat' = [chat EXCEPT ![c] = IdleChat]
    /\ UNCHANGED <<store, corpus, files, upl, nChats, nUploads, origin, indexed, calls>>

\* ------------------------------------------------------------------ /upload

IdleUpload ==
    [pc |-> "idle", name |-> "", data |-> <<>>, id |-> 0, orphan |-> FALSE, raw |-> <<>>,
     docs |-> <<>>, incs |-> 0, trail |-> <<>>, status |-> "none", err |-> ""]

\* upload_document, line 121
TempPath(filename) == "temp_" \o filename

\* PyPDFLoader.load accepts a file that starts with the PDF header
Parses(content) == Len(content) > 0 /\ content[1] = PdfHeader

\* bytes written at offset 0 of a file that holds old
Overwrite(old, data) == data \o SubSeq(old, Len(data) + 1, Len(old))

\* an exception handler that answers with the success message all the same
UploadSwallow(u, where) ==
    upl' = [upl EXCEPT ![u].pc = "done", ![u].status = "ok", ![u].err = where,
                       ![u].raw = <<>>, ![u].docs = <<>>]

\* an unhandled exception leaves the handler: the framework answers 500
UploadRaise(u, where) ==
    upl' = [upl EXCEPT ![u].pc = "done", ![u].status = "error", ![u].err = where,
                       ![u].raw = <<>>, ![u].docs = <<>>]

\* POST /upload arrives with a file (filename, bytes)
UploadStart(u, name, data) ==
    /\ upl[u].pc = "idle"
    /\ nUploads < MaxUploads
    /\ upl' = [upl EXCEPT ![u] = [IdleUpload EXCEPT !.pc = "open", !.name = name,
                                                    !.data = data, !.id = nUploads + 1]]
    /\ nUploads' = nUploads + 1
    /\ UNCHANGED <<store, corpus, files, chat, nChats, origin, indexed, calls>>

\* upload_document, line 123: open(path, "wb") creates the file or truncates it
UploadOpen(u) ==
    /\ upl[u].pc = "open"
    /\ LET path == TempPath(upl[u].name)
       IN  files' = [p \in DOMAIN files \cup {path} |-> IF p = path THEN <<>> ELSE files[p]]
    /\ upl' = [upl EXCEPT ![u].pc = "write"]
    /\ UNCHANGED <<store, corpus, chat, nChats, nUploads, origin, indexed, calls>>

\* upload_document, line 124 and the end of the with block: the bytes reach the
\* file the handle was opened on, which is no longer at path once it was removed
UploadWrite(u) ==
    /\ upl[u].pc = "write"
    /\ LET path == TempPath(upl[u].name)
       IN  IF upl[u].orphan
           THEN UNCHANGED files
           ELSE files' = [files EXCEPT ![path] = Overwrite(files[path], upl[u].data)]
    /\ upl' = [upl EXCEPT ![u].pc = "load", ![u].orphan = FALSE]
    /\ UNCHANGED <<store, corpus, chat, nChats, nUploads, origin, indexed, calls>>

\* ingest_pdf, lines 18-19
UploadLoad(u) ==
    /\ upl[u].pc = "load"
    /\ LET path == TempPath(upl[u].name)
       IN  IF path \in DOMAIN files /\ Parses(files[path])
           THEN upl' = [upl EXCEPT ![u].pc = "split", ![u].raw = files[path],
                                   ![u].trail = Append(upl[u].trail, "load")]
           ELSE UploadRaise(u, "load")
    /\ UNCHANGED <<store, corpus, files, chat, nChats, nUploads, origin, indexed, calls>>

\* ingest_pdf, lines 24-28: the chunks carry the text of the loaded pages
UploadSplit(u) ==
    /\ upl[u].pc = "split"
    /\ upl' = [upl EXCEPT ![u].pc = "store", ![u].docs = upl[u].raw, ![u].raw = <<>>,
                           ![u].trail = Append(upl[u].trail, "split")]
    /\ UNCHANGED <<store, corpus, files, chat, nChats, nUploads, origin, indexed, calls>>

\* ingest_pdf, lines 32-41: embed the chunks and insert them into pdf_collection
UploadStore(u) ==
    /\ upl[u].pc = "store"
    /\ \/ /\ UploadRaise(u, "store")
          /\ UNCHANGED corpus
       \/ /\ corpus' = corpus \cup {[by |-> upl[u].id, text |-> upl[u].docs]}
          /\ upl' = [upl EXCEPT ![u].pc = "bump", ![u].docs = <<>>,
                                 ![u].trail = Append(upl[u].trail, "store")]
    /\ UNCHANGED <<store, files, chat, nChats, nUploads, origin, indexed, calls>>

\* upload_document, line 130
UploadBump(u) ==
    /\ upl[u].pc = "bump"
    /\ \E reachable \in BOOLEAN :
          IF ~reachable
          THEN /\ UploadRaise(u, "bump")
               /\ UNCHANGED <<store, indexed>>
          ELSE /\ store' = bump_corpus_version(store)
               /\ indexed' = indexed \cup {upl[u].id}
               /\ upl' = [upl EXCEPT ![u].pc = "remove",
                                  ![u].trail = Append(upl[u].trail, "bump"),
                                  ![u].incs = upl[u].incs + VersionInt(store') - VersionInt(store)]
    /\ UNCHANGED <<corpus, files, chat, nChats, nUploads, origin, calls>>

\* upload_document, lines 132-133: os.remove raises when the file is gone
UploadRemove(u) ==
    /\ upl[u].pc = "remove"
    /\ LET path == TempPath(upl[u].name)
       IN  IF path \in DOMAIN files
           THEN /\ files' = [p \in DOMAIN files \ {path} |-> files[p]]
                /\ upl' = [w \in UploadIds |->
                             IF w = u
                             THEN [upl[u] EXCEPT !.pc = "done", !.status = "ok"]
                             ELSE IF upl[w].pc = "write" /\ TempPath(upl[w].name) = path
                                  THEN [upl[w] EXCEPT !.orphan = TRUE]
                                  ELSE upl[w]]
           ELSE /\ UploadRaise(u, "remove")
                /\ UNCHANGED files
    /\ UNCHANGED <<store, corpus, chat, nChats, nUploads, origin, indexed, calls>>

\* the response has been sent
UploadReturn(u) ==
    /\ upl[u].pc = "done"
    /\ upl' = [upl EXCEPT ![u] = IdleUpload]
    /\ UNCHANGED <<store, corpus, files, chat, nChats, nUploads, origin, indexed, calls>>

\* OpSpec: the record of one call: its arguments, the counter read before it, its result
NoCall == [op |-> "none", q |-> "", sid |-> "", a |-> "", pre |-> None, ret |-> None]

\* ------------------------------------------------------------------ environment

\* Redis drops a key whose time-to-live (save_to_cache, line 98) has run out
Expire(k) ==
    /\ k \in DOMAIN store
    /\ store[k].ttl # None
    /\ store' = RExpire(store, k)
    /\ origin' = [x \in DOMAIN origin \ {k} |-> origin[x]]
    /\ UNCHANGED <<corpus, files, chat, upl, nChats, nUploads, indexed, calls>>

\* ------------------------------------------------------------------ Spec

Init ==
    /\ store = [k \in {} |-> None]
    /\ corpus = {}
    /\ files = [p \in {} |-> None]
    /\ chat = [c \in ChatIds |-> IdleChat]
    /\ upl = [u \in UploadIds |-> IdleUpload]
    /\ nChats = 0
    /\ nUploads = 0
    /\ origin = [k \in {} |-> None]
    /\ indexed = {}
    /\ calls = [last |-> NoCall, prev |-> NoCall, bumps |-> 0]

\* ------------------------------------------------------------------ OpSpec

Called(rec) == [last |-> rec, prev |-> calls.last, bumps |-> calls.bumps]

CallGetVersion ==
    /\ LET r == get_corpus_version(store)
       IN  /\ store' = r.store
           /\ calls' = Called([NoCall EXCEPT !.op = "get_corpus_version",
                                             !.pre = gcv_read(store), !.ret = Some(r.ret)])
    /\ UNCHANGED <<corpus, files, chat, upl, nChats, nUploads, origin, indexed>>

CallBump ==
    /\ calls.bumps < MaxBumps
    /\ store' = bump_corpus_version(store)
    /\ calls' = [Called([NoCall EXCEPT !.op = "bump_corpus_version", !.pre = gcv_read(store)])
                    EXCEPT !.bumps = calls.bumps + 1]
    /\ UNCHANGED <<corpus, files, chat, upl, nChats, nUploads, origin, indexed>>

CallSave(q, a) ==
    /\ store' = save_to_cache(store, q, a)
    /\ calls' = Called([NoCall EXCEPT !.op = "save_to_cache", !.q = q, !.a = a])
    /\ UNCHANGED <<corpus, files, chat, upl, nChats, nUploads, origin, indexed>>

CallGet(q) ==
    /\ LET r == get_cached_response(store, q)
       IN  /\ store' = r.store
           /\ calls' = Called([NoCall EXCEPT !.op = "get_cached_response", !.q = q,
                                             !.ret = r.ret])
    /\ UNCHANGED <<corpus, files, chat, upl, nChats, nUploads, origin, indexed>>

\* one /chat request served from start to end; a is what the pipeline would return
CallChat(q, sid, a) ==
    /\ LET r == chat_request(store, QueryRequest(q, sid), a)
       IN  /\ store' = r.store
           /\ calls' = Called([NoCall EXCEPT !.op = "chat", !.q = q, !.sid = sid,
                                             !.ret = <<r.answer, r.source>>])
    /\ UNCHANGED <<corpus, files, chat, upl, nChats, nUploads, origin, indexed>>

\* a cache entry runs out of time between two calls
CallExpire(k) ==
    /\ k \in DOMAIN store
    /\ store[k].ttl # None
    /\ store' = RExpire(store, k)
    /\ calls' = Called([NoCall EXCEPT !.op = "expire"])
    /\ UNCHANGED <<corpus, files, chat, upl, nChats, nUploads, origin, indexed>>

OpNext ==
    \/ CallGetVersion
    \/ CallBump
    \/ \E q \in Questions, a \in Answers : CallSave(q, a)
    \/ \E q \in Questions : CallGet(q)
    \/ \E q \in Questions, a \in Answers : CallChat(q, "s1", a)
    \/ \E k \in DOMAIN store : CallExpire(k)

OpSpec == Init /\ [][OpNext]_vars

\* SessionSpec: /chat requests of several sessions, served one after another,
\* with version bumps and expiring entries in between
SessionNext ==
    \/ \E q \in Questions, sid \in Sessions, a \in Answers : CallChat(q, sid, a)
    \/ CallBump
    \/ \E k \in DOMAIN store : CallExpire(k)

SessionSpec == Init /\ [][SessionNext]_vars

\* KeySpec: cache_key is called twice, for any two versions and questions
CallKey(v, q) ==
    /\ calls.prev.op = "none"
    /\ calls' = Called([NoCall EXCEPT !.op = "cache_key", !.pre = Some(ToString(v)), !.q = q,
                                      !.a = raw_key(ToString(v), q),
                                      !.ret = Some(cache_key(ToString(v), q))])
    /\ UNCHANGED <<store, corpus, files, chat, upl, nChats, nUploads, origin, indexed>>

KeyNext == \E v \in 1..MaxKeyVersion, q \in KeyQuestions : CallKey(v, q)

KeySpec == Init /\ [][KeyNext]_vars

\* Spec: two workers serve /chat and one serves /upload; every request asks the
\* same question, so that the requests meet on the same cache keys
Next ==
    \/ \E c \in ChatIds : ChatStart(c, "q", "s1")
    \/ \E c \in ChatIds : ChatVersion(c)
    \/ \E c \in ChatIds : ChatVersionInit(c)
    \/ \E c \in ChatIds : ChatLookup(c)
    \/ \E c \in ChatIds : ChatInvoke(c)
    \/ \E c \in ChatIds : ChatSave(c)
    \/ \E c \in ChatIds : ChatReturn(c)
    \/ \E data \in {GoodPdf, BadPdf} : UploadStart("u1", "a.pdf", data)
    \/ UploadOpen("u1")
    \/ UploadWrite("u1")
    \/ UploadLoad("u1")
    \/ UploadSplit("u1")
    \/ UploadStore("u1")
    \/ UploadBump("u1")
    \/ UploadRemove("u1")
    \/ UploadReturn("u1")
    \/ \E k \in DOMAIN store : Expire(k)

Spec == Init /\ [][Next]_vars

\* UploadSpec: two workers serve /upload, with every file name and content
UploadNext ==
    \/ \E u \in UploadIds, name \in Filenames, data \in Blobs : UploadStart(u, name, data)
    \/ \E u \in UploadIds : UploadOpen(u)
    \/ \E u \in UploadIds : UploadWrite(u)
    \/ \E u \in UploadIds : UploadLoad(u)
    \/ \E u \in UploadIds : UploadSplit(u)
    \/ \E u \in UploadIds : UploadStore(u)
    \/ \E u \in UploadIds : UploadBump(u)
    \/ \E u \in UploadIds : UploadRemove(u)
    \/ \E u \in UploadIds : UploadReturn(u)

UploadSpec == Init /\ [][UploadNext]_vars

\* ------------------------------------------------------------------ claims

\* the version string a reader of the counter is given now
CurrentVersion == get_corpus_version(store).ret

\* a cache hit for q at the current version
Hit(q) == Truthy(get_cached_response(store, q).ret)

\* C1 (Spec): whenever an answer is cached for q under the stored version v, a
\* bump_corpus_version() leaves get_cached_response(q) absent and the entry
\* under the old key in place.
C1_Invalidation ==
    [][\A q \in Questions :
          LET v == gcv_read(store)
          IN  (/\ Truthy(v)
               /\ cache_key(v[1], q) \in DOMAIN store
               /\ store' = bump_corpus_version(store))
              => /\ get_cached_response(store', q).ret = None
                 /\ cache_key(v[1], q) \in DOMAIN store'
                 /\ store'[cache_key(v[1], q)] = store[cache_key(v[1], q)]]_vars

\* C2 (Spec): an answer that get_cached_response(q) returns at the current
\* version was retrieved from a corpus that held every document whose upload
\* has bumped the version: a hit is never an answer computed from old content.
C2_NoStaleHit ==
    \A q \in Questions :
        Hit(q) => indexed \subseteq origin[cache_key(CurrentVersion, q)]

\* C3 (Spec): the stored corpus version never decreases, whatever the
\* interleaving of get_corpus_version and bump_corpus_version.
C3_VersionNeverDecreases == [][VersionInt(store') >= VersionInt(store)]_vars

\* C4 (OpSpec): after n calls of bump_corpus_version() get_corpus_version()
\* returns initial + n, initial being 1 on a store that held no value.
C4_Monotonic ==
    calls.last.op = "get_corpus_version"
        => calls.last.ret = Some(ToString(1 + calls.bumps))

\* C5 (UploadSpec), the claim as stated: an /upload request whose ingestion
\* (load, split, embed and store) completed has raised the stored counter by
\* exactly 1, and one whose ingestion failed has raised it by 0.
C5_IngestedMeansBumped ==
    \A u \in UploadIds :
        upl[u].pc = "done"
            => upl[u].incs = (IF upl[u].err \in {"load", "store"} THEN 0 ELSE 1)

\* C5 (UploadSpec), amended: an /upload request raises the stored counter by
\* exactly 1 when ingestion completed and bump_corpus_version() reached the
\* store, and by 0 when a step of ingestion failed or the store could not be
\* reached; the counter is not touched before the chunks are stored.
C5_BumpAfterIngestion ==
    \A u \in UploadIds :
        /\ upl[u].pc \in {"idle", "open", "write", "load", "split", "store", "bump"}
               => upl[u].incs = 0
        /\ upl[u].pc = "remove" => upl[u].incs = 1
        /\ upl[u].pc = "done"
               => upl[u].incs = (IF upl[u].status = "ok" \/ upl[u].err = "remove"
                                 THEN 1 ELSE 0)

\* C5 witness: one upload has answered with success after one increment, another
\* has failed to parse its file and has made none.
C5_Witness ==
    \E u, w \in UploadIds :
        /\ upl[u].pc = "done" /\ upl[u].status = "ok" /\ upl[u].incs = 1
        /\ upl[w].pc = "done" /\ upl[w].err = "load" /\ upl[w].incs = 0
        /\ upl[w].data = BadPdf

\* C6 (OpSpec): of two /chat requests for the same question served one after
\* the other, the first computing its answer, the second is served from the
\* cache and carries the first one's answer, whatever text the pipeline returned.
C6_SecondFromCache ==
    (/\ calls.prev.op = "chat"
     /\ calls.last.op = "chat"
     /\ calls.last.q = calls.prev.q
     /\ calls.prev.ret[2] = "llm")
        => calls.last.ret = <<calls.prev.ret[1], "cache">>

\* C7 (OpSpec): save_to_cache(q, a) followed by get_cached_response(q) returns
\* exactly a, for every answer string a.
C7_RoundTrip ==
    (/\ calls.prev.op = "save_to_cache"
     /\ calls.last.op = "get_cached_response"
     /\ calls.last.q = calls.prev.q)
        => calls.last.ret = Some(calls.prev.a)

\* C8 (Spec): a /chat request whose cache write (the SETEX of save_to_cache)
\* fails still returns its answer with source "llm".
C8_WriteFailureNonFatal ==
    \A c \in ChatIds :
        (chat[c].pc = "done" /\ chat[c].err = "save_setex")
            => chat[c].status = "ok" /\ chat[c].source = "llm"

\* C9 (Spec): a /chat request whose cache lookup (the GET of
\* get_cached_response) fails goes on as after a miss and returns an answer
\* with source "llm".
C9_ReadFailureIsMiss ==
    \A c \in ChatIds :
        (chat[c].pc = "done" /\ chat[c].err = "lookup_get")
            => chat[c].status = "ok" /\ chat[c].source = "llm"

\* C10 (OpSpec): get_corpus_version() is idempotent: a call that follows
\* another with no bump in between returns the same value, the stored counter
\* equals the value returned, and the call on an empty store returns "1".
C10_Idempotent ==
    calls.last.op = "get_corpus_version"
        => /\ gcv_read(store) = calls.last.ret
           /\ calls.last.pre = None => calls.last.ret = Some("1")
           /\ calls.prev.op = "get_corpus_version" => calls.last.ret = calls.prev.ret

\* C10 witness: the first call found the store empty and a second call followed it.
C10_Witness ==
    /\ calls.prev.op = "get_corpus_version"
    /\ calls.prev.pre = None
    /\ calls.last.op = "get_corpus_version"
    /\ calls.last.ret = Some("1")

\* C11 (KeySpec): cache_key is deterministic and separates distinct inputs:
\* two calls give the same pre-hash string, and the same key, exactly when
\* they were given the same version and the same question, byte for byte.
C11_KeySeparates ==
    (calls.prev.op = "cache_key" /\ calls.last.op = "cache_key")
        => LET same == calls.prev.pre = calls.last.pre /\ calls.prev.q = calls.last.q
           IN  /\ same <=> calls.prev.a = calls.last.a
               /\ same <=> calls.prev.ret = calls.last.ret

\* C11 witness: version 1 with question "1:q" and version 11 with question ":q",
\* whose digits and colons run together, have been given different keys.
C11_Witness ==
    /\ calls.prev.op = "cache_key" /\ calls.prev.pre = Some("1") /\ calls.prev.q = "1:q"
    /\ calls.last.op = "cache_key" /\ calls.last.pre = Some("11") /\ calls.last.q = ":q"
    /\ calls.prev.ret # calls.last.ret

\* C12 (Spec): a /chat request that missed the cache derives the key it stores
\* under from the same corpus version as the key it looked up.
C12_OneVersionPerRequest ==
    \A c \in ChatIds : chat[c].pc = "save_setex" => chat[c].sver = chat[c].lver

\* C13 (Spec): when the lookup of a /chat request finds an entry under its key
\* the request answers from the cache with the pipeline not invoked and the
\* cache not written; when it finds none the pipeline is invoked; a request
\* that answers has source "cache" exactly when it did not invoke the
\* pipeline, and otherwise invoked it once and wrote its result first.
C13_ShortCircuit ==
    [][\A c \in ChatIds :
          /\ (/\ chat[c].pc = "lookup_get"
              /\ chat'[c].pc \in {"invoke", "done"}
              /\ chat'[c].status # "error")
                => IF cache_key(chat[c].lver, chat[c].q) \in DOMAIN store
                   THEN /\ chat'[c].pc = "done"
                        /\ chat'[c].source = "cache"
                        /\ chat'[c].runs = 0
                        /\ chat'[c].wrote = 0
                   ELSE chat'[c].pc = "invoke"
          /\ (chat'[c].pc = "done" /\ chat'[c].status = "ok")
                => /\ chat'[c].source = "cache" <=> chat'[c].runs = 0
                   /\ chat'[c].source = "llm" => chat'[c].runs = 1 /\ chat'[c].wrote = 1]_vars

\* the steps of an ingestion, in the order of upload_document and ingest_pdf
IngestSteps == <<"load", "split", "store", "bump">>

\* C14 (UploadSpec): the steps of an /upload request complete in the order
\* load, split, embed-and-store, version bump; the version is bumped only
\* after the request's chunks are in the vector store; a request answers with
\* the success message only after all four steps, and a request whose bump
\* could not reach the store ends in an error.
C14_SuccessAfterAllSteps ==
    \A u \in UploadIds :
        upl[u].pc # "idle"
            => /\ upl[u].trail = SubSeq(IngestSteps, 1, Len(upl[u].trail))
               /\ upl[u].id \in indexed => upl[u].id \in Visible
               /\ upl[u].id \in indexed <=> Len(upl[u].trail) = 4
               /\ upl[u].id \in Visible <=> Len(upl[u].trail) >= 3
               /\ upl[u].status = "ok" => upl[u].trail = IngestSteps
               /\ upl[u].err = "bump" => upl[u].status = "error" /\ Len(upl[u].trail) = 3

\* C14 witness: one upload has answered with success, another has stored its
\* chunks and ended in an error at the bump.
C14_Witness ==
    \E u, w \in UploadIds :
        /\ upl[u].pc = "done" /\ upl[u].status = "ok" /\ upl[u].id \in indexed
        /\ upl[w].pc = "done" /\ upl[w].err = "bump" /\ upl[w].id \in Visible

\* C15 (UploadSpec): once an /upload request has finished, with the success
\* message or with an error, its temporary file no longer exists.
C15_TempFileDeleted ==
    \A u \in UploadIds :
        upl[u].pc = "done" => TempPath(upl[u].name) \notin DOMAIN files

\* C18 (UploadSpec): concurrent /upload requests do not disturb each other:
\* each ingests exactly the bytes it received, so that loading fails only for
\* bytes that do not parse; no os.remove fails on a file another request has
\* deleted; the uploads that bumped the version raised it by one each.
C18_UploadsIndependent ==
    /\ \A u \in UploadIds :
          /\ upl[u].pc = "split" => upl[u].raw = upl[u].data
          /\ upl[u].err = "load" => ~Parses(upl[u].data)
          /\ upl[u].err # "remove"
    /\ VersionInt(store) = Cardinality(indexed)

\* C16 (OpSpec): a call of bump_corpus_version() changes only the key
\* "corpus_version": every other entry of the store is still there afterwards
\* with the same key, value and expiry, and no entry is added; the key that
\* save_to_cache writes, directly or from a /chat request, is never the key
\* "corpus_version", which still holds the version the key was derived from.
C16_BumpFrame ==
    [][/\ calls'.last.op = "bump_corpus_version"
             => /\ DOMAIN store \subseteq DOMAIN store'
                /\ DOMAIN store' \subseteq DOMAIN store \cup {VKEY}
                /\ \A k \in DOMAIN store \ {VKEY} : store'[k] = store[k]
       /\ (\/ calls'.last.op = "save_to_cache"
           \/ calls'.last.op = "chat" /\ calls'.last.ret[2] = "llm")
             => LET key == cache_key(CurrentVersion, calls'.last.q)
                    val == IF calls'.last.op = "chat" THEN calls'.last.ret[1] ELSE calls'.last.a
                IN  /\ key # VKEY
                    /\ key \in DOMAIN store' /\ store'[key].val = val
                    /\ VKEY \in DOMAIN store' /\ store'[VKEY].val = CurrentVersion]_vars

\* C16 witness: the version has just been bumped to 2 and the answers cached
\* under version 1 are still in the store, now orphaned.
C16_Witness ==
    /\ calls.last.op = "bump_corpus_version"
    /\ CurrentVersion = "2"
    /\ {cache_key("1", "q"), cache_key("1", "1:q")} \subseteq DOMAIN store
    /\ store[cache_key("1", "q")] = [val |-> "Paris", ttl |-> Some(CacheTtl)]

\* C17 (SessionSpec): session_id does not influence a /chat request: from any
\* store state, requests with the same question and pipeline result and
\* different session ids give the same answer, source and resulting store;
\* and an answer that a request of one session has cached is served from the
\* cache to the next request for the same question from another session.
C17_SessionBlind ==
    /\ \A q \in Questions, a \in Answers, s, t \in Sessions :
          chat_request(store, QueryRequest(q, s), a) = chat_request(store, QueryRequest(q, t), a)
    /\ (/\ calls.prev.op = "chat" /\ calls.last.op = "chat"
        /\ calls.prev.q = calls.last.q /\ calls.prev.sid # calls.last.sid
        /\ calls.prev.ret[2] = "llm")
          => calls.last.ret = <<calls.prev.ret[1], "cache">>

====
